---- MODULE Spec2Model ----
(***************************************************************************)
(* Model of go-struct-sync: CompareStructs (compare.go), ApplyChanges      *)
(* (change.go) and RevertChanges (compare.go), over the Person shape of    *)
(* change_test.go.                                                         *)
(*                                                                         *)
(* A Go value is a record [kind, isNil, data]: kind is the runtime type,   *)
(* isNil tells a nil slice / nil pointer / nil interface from a present    *)
(* one, data is the payload as a sequence of naturals (the runes of a      *)
(* string, the elements of a []string, the number of an int, twice the     *)
(* number of a float64, 0/1 of a bool, the pointee of a *Person).          *)
(***************************************************************************)
EXTENDS Naturals, Sequences, FiniteSets, TLC

VARIABLES old, new, pc, mu, wg, changes, tmp, cpc, ret,
          oldArg, newArg, cerr, order,
          heap, isPointer, res, applyChs, idx, fieldCache, apc, aerr, aret,
          phase, orig0,
          op, opc, args, wire, out, oerr

(* CompareStructs (compare.go:28-118): old, new the two records; pc the     *)
(* position of each field's goroutine; mu the holder of the mutex; wg the  *)
(* WaitGroup counter; changes the result buffer; tmp the slice each append *)
(* has read; cpc the caller's position; ret the returned ChangeSet (with   *)
(* an error: nil); oldArg, newArg the two arguments as passed; cerr the    *)
(* returned error; order the fields in the order their tasks took mu.      *)
(* ApplyChanges (change.go:9-88): heap the record instances by address;    *)
(* isPointer; res the address of resultVal; applyChs the change list; idx  *)
(* the number of changes handled; fieldCache the names resolved; apc the   *)
(* position; aerr the error ("panic" for a run-time panic); aret the       *)
(* address of the returned record; orig0 the original as passed.           *)
(* phase: the call in progress in the flow of main.                        *)
(* The change-set functions of compare.go (FilterChanges, RevertChanges,   *)
(* MergeChanges, ChangesToJSON, ChangesFromJSON): op the function called;  *)
(* opc the position of the call; args its arguments; wire the encoded      *)
(* bytes; out the returned list; oerr the returned error.                  *)
cmpVars == <<old, new, pc, mu, wg, changes, tmp, cpc, ret, oldArg, newArg, cerr, order>>
appVars == <<heap, isPointer, res, applyChs, idx, fieldCache, apc, aerr, aret, orig0>>
algVars == <<op, opc, args, wire, out, oerr>>
vars == <<old, new, pc, mu, wg, changes, tmp, cpc, ret,
          oldArg, newArg, cerr, order,
          heap, isPointer, res, applyChs, idx, fieldCache, apc, aerr, aret,
          phase, orig0,
          op, opc, args, wire, out, oerr>>

----------------------------------------------------------------------------
(* Bounds of the model. *)

\* longest change list handed to a change-set function
MaxList == 3
\* at most this many fields hold a non-zero value in the inputs of CompareStructs
MaxActive == 2
\* longest change list a caller hands to ApplyChanges
MaxChanges == 2

----------------------------------------------------------------------------
(* Values. *)

Val(k, n, d) == [kind |-> k, isNil |-> n, data |-> d]

NilV == Val("nil", TRUE, <<>>)
StrV(s) == Val("string", FALSE, s)
IntV(n) == Val("int", FALSE, <<n>>)
FloatV(h) == Val("float64", FALSE, <<h>>)
BoolV(b) == Val("bool", FALSE, <<IF b THEN 1 ELSE 0>>)
SliceV(s) == Val("slice", FALSE, s)
NilSlice == Val("slice", TRUE, <<>>)
PtrV(p) == Val("ptr", FALSE, <<p>>)
NilPtr == Val("ptr", TRUE, <<>>)
StructV == Val("struct", FALSE, <<>>)

\* the Person shape: field names in declaration order (Address, a second
\* text field handled like Name, is left out)
Fields == <<"Name", "Age", "Active", "Children", "Manager", "private">>

FieldNames == {Fields[i] : i \in 1..Len(Fields)}

\* declared type of each field
FieldKind(f) ==
  CASE f = "Name" -> "string"
    [] f = "Age" -> "int"
    [] f = "Active" -> "bool"
    [] f = "Children" -> "slice"
    [] f = "Manager" -> "ptr"
    [] f = "private" -> "string"

\* reflect's CanInterface / CanSet of a field of an addressable struct:
\* false for the lower-case (unexported) field
Exported(f) == f # "private"

ExportedNames == {f \in FieldNames : Exported(f)}

\* reflect.Zero(t)
Zero(k) ==
  CASE k = "string" -> StrV(<<>>)
    [] k = "int" -> IntV(0)
    [] k = "bool" -> BoolV(FALSE)
    [] k = "slice" -> NilSlice
    [] k = "ptr" -> NilPtr

\* reflect.New(originalType).Elem(): every field at its zero value
ZeroRecord == [f \in FieldNames |-> Zero(FieldKind(f))]

\* values a field of each type takes in the inputs
FieldValues(f) ==
  CASE f = "Name" -> {StrV(<<>>), StrV(<<97>>), StrV(<<98>>)}
    [] f = "Age" -> {IntV(0), IntV(1)}
    [] f = "Active" -> {BoolV(FALSE), BoolV(TRUE)}
    [] f = "Children" -> {NilSlice, SliceV(<<>>), SliceV(<<1>>), SliceV(<<2>>)}
    [] f = "Manager" -> {NilPtr, PtrV(1), PtrV(2)}
    [] f = "private" -> {StrV(<<>>), StrV(<<115>>)}

\* the records whose fields in S take any of their values and whose other
\* fields are at their zero value (built over the first i fields)
RECURSIVE RecordsOver(_, _)
RecordsOver(i, S) ==
  IF i = 0 THEN {[x \in {} |-> NilV]}
  ELSE LET f == Fields[i]
           vs == IF f \in S THEN FieldValues(f) ELSE {Zero(FieldKind(f))}
       IN {r @@ (f :> v) : r \in RecordsOver(i - 1, S), v \in vs}

\* the sets of fields that may be set in an input
ActiveSets == {S \in SUBSET FieldNames : Cardinality(S) <= MaxActive}

\* input pairs of CompareStructs: two records of the Person shape
InputPairs ==
  UNION {RecordsOver(Len(Fields), S) \X RecordsOver(Len(Fields), S) : S \in ActiveSets}

----------------------------------------------------------------------------
(* reflect helpers used by CompareStructs. *)

\* an equality that compares slices and pointers by address: two values built
\* apart are equal only when both are nil
DeepEqualByAddress(x, y) ==
  /\ x.kind = y.kind
  /\ IF x.kind \in {"slice", "ptr"} THEN x.isNil /\ y.isNil ELSE x.data = y.data

\* reflect.DeepEqual on two values: identical types; slices both nil or both
\* non-nil with equal elements; pointers both nil or equal pointees
DeepEqual(x, y) ==
  /\ x.kind = y.kind
  /\ CASE x.kind \in {"slice", "ptr"} ->
            /\ x.isNil = y.isNil
            /\ Len(x.data) = Len(y.data)
            /\ \A i \in 1..Len(x.data) : x.data[i] = y.data[i]
       [] OTHER -> x.data = y.data

\* a classification that tells collections apart by nil instead of length
ClassifyByNil(o, n) ==
  CASE o.kind \in {"ptr", "interface", "slice", "map"} ->
         IF ~o.isNil /\ n.isNil THEN "deleted"
         ELSE IF o.isNil /\ ~n.isNil THEN "added"
         ELSE "modified"
    [] o.kind = "string" ->
         IF o.data # <<>> /\ n.data = <<>> THEN "deleted"
         ELSE IF o.data = <<>> /\ n.data # <<>> THEN "added"
         ELSE "modified"
    [] OTHER -> "modified"

\* the classification switch of CompareStructs on an unequal field
ClassifyChange(o, n) ==
  CASE o.kind \in {"ptr", "interface"} ->
         IF ~o.isNil /\ n.isNil THEN "deleted"
         ELSE IF o.isNil /\ ~n.isNil THEN "added"
         ELSE "modified"
    [] o.kind \in {"slice", "map"} ->
         IF Len(o.data) > 0 /\ Len(n.data) = 0 THEN "deleted"
         ELSE IF Len(o.data) = 0 /\ Len(n.data) > 0 THEN "added"
         ELSE "modified"
    [] o.kind = "string" ->
         IF o.data # <<>> /\ n.data = <<>> THEN "deleted"
         ELSE IF o.data = <<>> /\ n.data # <<>> THEN "added"
         ELSE "modified"
    [] OTHER -> "modified"

\* the Change a field task appends
FieldChange(f, o, n) ==
  [Field |-> f, ChangeType |-> ClassifyChange(o, n), OldValue |-> o, NewValue |-> n]

\* the guard of the append: the field's values are not deeply equal
Differs(f) == ~DeepEqual(old[f], new[f])

----------------------------------------------------------------------------
(* The arguments of CompareStructs.  An argument is a record [ind, typ,    *)
(* isNil, rec]: ind the number of pointer levels around the value, typ the *)
(* type below the pointers ("invalid" for the untyped nil), isNil whether  *)
(* the outermost pointer is nil, rec the fields of a Person.               *)

\* a Person passed by value
ByValue(r) == [ind |-> 0, typ |-> "Person", isNil |-> FALSE, rec |-> r]

\* the zero reflect.Value: reflect.ValueOf(nil), or Elem() of a nil pointer
InvalidArg == [ind |-> 0, typ |-> "invalid", isNil |-> FALSE, rec |-> ZeroRecord]

\* the struct types of the tests: Person and OtherStruct
StructTypes == {"Person", "OtherStruct"}

\* Value.Kind()
Kind(a) ==
  IF a.typ = "invalid" THEN "invalid"
  ELSE IF a.ind > 0 THEN "ptr"
  ELSE IF a.typ \in StructTypes THEN "struct"
  ELSE a.typ

\* Value.Elem() of a pointer
Elem(a) == IF a.isNil THEN InvalidArg ELSE [a EXCEPT !.ind = a.ind - 1]

\* a validation that follows pointers to the end
DerefAll(a) ==
  IF a.typ = "invalid" \/ a.isNil THEN InvalidArg ELSE [a EXCEPT !.ind = 0]

\* lines 33-38: one level of dereferencing
Deref(a) == IF Kind(a) = "ptr" THEN Elem(a) ELSE a

\* Value.Type(): the type with its pointer levels
TypeOf(a) == <<a.ind, a.typ>>

\* lines 41-46 on the dereferenced values: "none" or the error returned
ValidateError(o, n) ==
  IF Kind(o) # "struct" \/ Kind(n) # "struct" THEN "both arguments must be structs"
  ELSE IF TypeOf(o) # TypeOf(n) THEN "both structs must be of the same type"
  ELSE "none"

----------------------------------------------------------------------------
(* CompareStructs: one goroutine per field, a mutex around the append, a   *)
(* WaitGroup joined before the return.                                     *)

NoLock == "none"

\* lines 29-46: dereference both arguments, validate them, return the error
Validate ==
  /\ cpc = "entry"
  /\ LET o == Deref(oldArg)
         n == Deref(newArg)
     IN IF ValidateError(o, n) = "none"
          THEN /\ old' = o.rec
               /\ new' = n.rec
               /\ cpc' = "start"
               /\ UNCHANGED <<cerr, ret>>
          ELSE /\ cerr' = ValidateError(o, n)
               /\ ret' = <<>>
               /\ cpc' = "returned"
               /\ UNCHANGED <<old, new>>
  /\ UNCHANGED <<pc, mu, wg, changes, tmp, oldArg, newArg, order>>
  /\ UNCHANGED <<appVars, algVars, phase>>

\* lines 48-114: create wg, mu, changes; launch one task per field
Spawn ==
  /\ cpc = "start"
  /\ cpc' = "wait"
  /\ wg' = Len(Fields)
  /\ pc' = [f \in FieldNames |-> "ready"]
  /\ changes' = <<>>
  /\ UNCHANGED <<old, new, mu, tmp, ret>>
  /\ UNCHANGED <<oldArg, newArg, cerr, order>>
  /\ UNCHANGED <<appVars, algVars, phase>>

\* the task's next position after its checks: unexported fields return at
\* once, equal fields fall through to the end, unequal ones go to mu.Lock()
AfterCheck(f) ==
  IF ~Exported(f) THEN "done"
  ELSE IF Differs(f) THEN "lock"
  ELSE "done"

\* lines 71-79 of the task body
TaskCheck(f) ==
  /\ pc[f] = "ready"
  /\ pc' = [pc EXCEPT ![f] = AfterCheck(f)]
  /\ wg' = IF AfterCheck(f) = "done" THEN wg - 1 ELSE wg
  /\ UNCHANGED <<old, new, mu, changes, tmp, cpc, ret>>
  /\ UNCHANGED <<oldArg, newArg, cerr, order>>
  /\ UNCHANGED <<appVars, algVars, phase>>

\* a lock that never excludes
CanLockAlways(f) == TRUE

\* whether mu.Lock() can be taken
CanLock(f) == mu = NoLock

\* line 104
TaskLock(f) ==
  /\ pc[f] = "lock"
  /\ CanLock(f)
  /\ mu' = f
  /\ pc' = [pc EXCEPT ![f] = "append"]
  /\ order' = Append(order, f)
  /\ UNCHANGED <<old, new, wg, changes, tmp, cpc, ret>>
  /\ UNCHANGED <<oldArg, newArg, cerr>>
  /\ UNCHANGED <<appVars, algVars, phase>>

\* lines 105-110, first half: append reads the slice it extends
TaskAppend(f) ==
  /\ pc[f] = "append"
  /\ tmp' = [tmp EXCEPT ![f] = changes]
  /\ pc' = [pc EXCEPT ![f] = "store"]
  /\ UNCHANGED <<old, new, mu, wg, changes, cpc, ret>>
  /\ UNCHANGED <<oldArg, newArg, cerr, order>>
  /\ UNCHANGED <<appVars, algVars, phase>>

\* a store that puts the new change in front of the buffer
TaskStoreInFront(f) ==
  /\ pc[f] = "store"
  /\ changes' = <<FieldChange(f, old[f], new[f])>> \o tmp[f]
  /\ tmp' = [tmp EXCEPT ![f] = <<>>]
  /\ pc' = [pc EXCEPT ![f] = "unlock"]
  /\ UNCHANGED <<old, new, mu, wg, cpc, ret>>
  /\ UNCHANGED <<oldArg, newArg, cerr, order>>
  /\ UNCHANGED <<appVars, algVars, phase>>

\* lines 105-110, second half: the extended slice is stored into changes
TaskStore(f) ==
  /\ pc[f] = "store"
  /\ changes' = Append(tmp[f], FieldChange(f, old[f], new[f]))
  /\ tmp' = [tmp EXCEPT ![f] = <<>>]
  /\ pc' = [pc EXCEPT ![f] = "unlock"]
  /\ UNCHANGED <<old, new, mu, wg, cpc, ret>>
  /\ UNCHANGED <<oldArg, newArg, cerr, order>>
  /\ UNCHANGED <<appVars, algVars, phase>>

\* line 111 and the deferred wg.Done()
TaskUnlock(f) ==
  /\ pc[f] = "unlock"
  /\ mu' = NoLock
  /\ wg' = wg - 1
  /\ pc' = [pc EXCEPT ![f] = "done"]
  /\ UNCHANGED <<old, new, changes, tmp, cpc, ret>>
  /\ UNCHANGED <<oldArg, newArg, cerr, order>>
  /\ UNCHANGED <<appVars, algVars, phase>>

\* a return that does not wait for the tasks
WaitReturnEarly ==
  /\ cpc = "wait"
  /\ cpc' = "returned"
  /\ ret' = changes
  /\ UNCHANGED <<old, new, pc, mu, wg, changes, tmp>>
  /\ UNCHANGED <<oldArg, newArg, cerr, order>>
  /\ UNCHANGED <<appVars, algVars, phase>>

\* lines 116-117: wg.Wait() returns once the counter is zero
WaitReturn ==
  /\ cpc = "wait"
  /\ wg = 0
  /\ cpc' = "returned"
  /\ ret' = changes
  /\ UNCHANGED <<old, new, pc, mu, wg, changes, tmp>>
  /\ UNCHANGED <<oldArg, newArg, cerr, order>>
  /\ UNCHANGED <<appVars, algVars, phase>>

NextCompare ==
  \/ Validate
  \/ Spawn
  \/ \E f \in FieldNames : TaskCheck(f)
  \/ \E f \in FieldNames : TaskLock(f)
  \/ \E f \in FieldNames : TaskAppend(f)
  \/ \E f \in FieldNames : TaskStore(f)
  \/ \E f \in FieldNames : TaskUnlock(f)
  \/ WaitReturn

\* state of a call of CompareStructs(o, n) on entry
CompareEntry(o, n) ==
  /\ oldArg = o
  /\ newArg = n
  /\ old = ZeroRecord
  /\ new = ZeroRecord
  /\ pc = [f \in FieldNames |-> "idle"]
  /\ mu = NoLock
  /\ wg = 0
  /\ changes = <<>>
  /\ tmp = [f \in FieldNames |-> <<>>]
  /\ cpc = "entry"
  /\ ret = <<>>
  /\ cerr = "none"
  /\ order = <<>>

\* no change-set function called
AlgebraIdle ==
  /\ op = "none"
  /\ opc = "idle"
  /\ args = [lists |-> <<>>, types |-> {}, fields |-> {}]
  /\ wire = <<>>
  /\ out = <<>>
  /\ oerr = "none"

\* no call of ApplyChanges in progress
ApplyIdle ==
  /\ heap = <<>>
  /\ isPointer = FALSE
  /\ res = 0
  /\ applyChs = <<>>
  /\ idx = 0
  /\ fieldCache = {}
  /\ apc = "idle"
  /\ aerr = "none"
  /\ aret = 0
  /\ orig0 = ZeroRecord

----------------------------------------------------------------------------
(* ApplyChanges.  heap holds the record instances by address: heap[1] is   *)
(* the caller's original, res the address of resultVal, aret the address   *)
(* of the returned record (0: nil).  orig0 remembers the original as it    *)
(* was passed in.                                                          *)

\* Type.ConvertibleTo between the types of the model
ConvertibleTo(src, dst) ==
  \/ src = dst
  \/ src = "int" /\ dst \in {"string", "float64"}
  \/ src = "float64" /\ dst = "int"

\* Value.Convert: an integer becomes the one-rune string of that code point,
\* a float64 is truncated to an int, an int widens to a float64
Convert(v, dst) ==
  CASE v.kind = dst -> v
    [] v.kind = "int" /\ dst = "string" -> StrV(<<v.data[1]>>)
    [] v.kind = "float64" /\ dst = "int" -> IntV(v.data[1] \div 2)
    [] v.kind = "int" /\ dst = "float64" -> FloatV(2 * v.data[1])

\* the kinds whose zero value is nil
Nillable(k) == k \in {"ptr", "interface", "map", "slice"}

\* a result that reuses the original's instance
NewInstanceAlias(h) == 1

\* address of the instance reflect.New creates
NewInstance(h) == Len(h) + 1

\* a copy loop that copies nothing
CopyNothing(orig) == ZeroRecord

\* the copy loop: exported fields of the original into a new zero instance
CopyFields(orig) ==
  [f \in FieldNames |-> IF Exported(f) THEN orig[f] ELSE ZeroRecord[f]]

\* lines 11-35: the new instance, the copy of the fields, the empty cache
ApplyStart ==
  /\ apc = "start"
  /\ res' = NewInstance(heap)
  /\ heap' = [a \in 1..(IF NewInstance(heap) > Len(heap) THEN Len(heap) + 1 ELSE Len(heap)) |->
                IF a = NewInstance(heap) THEN CopyFields(heap[1]) ELSE heap[a]]
  /\ fieldCache' = {}
  /\ idx' = 0
  /\ apc' = "loop"
  /\ UNCHANGED <<isPointer, applyChs, aerr, aret, orig0>>
  /\ UNCHANGED <<cmpVars, algVars, phase>>

\* the field lookup and the settable check of one change: "none" or the error
LookupError(c) ==
  IF c.Field \notin fieldCache /\ c.Field \notin FieldNames THEN "not found"
  ELSE IF ~Exported(c.Field) THEN "not settable"
  ELSE "none"

\* the outcome of the Modified/Added case for field f and newValue v
SetOutcome(f, v) ==
  IF v = NilV /\ Nillable(FieldKind(f)) THEN [err |-> "none", val |-> Zero(FieldKind(f))]
  ELSE IF v = NilV THEN [err |-> "panic", val |-> NilV]
  ELSE IF FieldKind(f) = v.kind THEN [err |-> "none", val |-> v]
  ELSE IF ConvertibleTo(v.kind, FieldKind(f))
    THEN [err |-> "none", val |-> Convert(v, FieldKind(f))]
  ELSE [err |-> "cannot convert", val |-> NilV]

\* a switch without the Deleted case
ChangeOutcomeNoDelete(c) == SetOutcome(c.Field, c.NewValue)

\* the switch on ChangeType
ChangeOutcome(c) ==
  IF c.ChangeType = "deleted" THEN [err |-> "none", val |-> Zero(FieldKind(c.Field))]
  ELSE SetOutcome(c.Field, c.NewValue)

\* the whole loop body for one change
StepOutcome(c) ==
  IF LookupError(c) # "none" THEN [err |-> LookupError(c), val |-> NilV]
  ELSE ChangeOutcome(c)

\* the position of the change the loop handles next
NextIndex(i) == i + 1

\* lines 38-79, one iteration
ApplyChange ==
  /\ apc = "loop"
  /\ idx < Len(applyChs)
  /\ LET c == applyChs[NextIndex(idx)]
         o == StepOutcome(c)
     IN /\ idx' = idx + 1
        /\ fieldCache' = IF c.Field \in FieldNames THEN fieldCache \cup {c.Field}
                         ELSE fieldCache
        /\ IF o.err = "none"
             THEN /\ heap' = [heap EXCEPT ![res][c.Field] = o.val]
                  /\ UNCHANGED <<apc, aerr, aret>>
             ELSE /\ apc' = "done"
                  /\ aerr' = o.err
                  /\ aret' = 0
                  /\ UNCHANGED heap
  /\ UNCHANGED <<isPointer, res, applyChs, orig0>>
  /\ UNCHANGED <<cmpVars, algVars, phase>>

\* lines 82-87
ApplyReturn ==
  /\ apc = "loop"
  /\ idx = Len(applyChs)
  /\ apc' = "done"
  /\ IF isPointer
       THEN /\ heap' = Append(heap, heap[res])
            /\ aret' = Len(heap) + 1
       ELSE /\ aret' = res
            /\ UNCHANGED heap
  /\ UNCHANGED <<isPointer, res, applyChs, idx, fieldCache, aerr, orig0>>
  /\ UNCHANGED <<cmpVars, algVars, phase>>

NextApply == ApplyStart \/ ApplyChange \/ ApplyReturn

\* state of a call of ApplyChanges(original, chs) on entry
ApplyEntry(original, byPointer, chs) ==
  /\ heap = <<original>>
  /\ isPointer = byPointer
  /\ res = 0
  /\ applyChs = chs
  /\ idx = 0
  /\ fieldCache = {}
  /\ apc = "start"
  /\ aerr = "none"
  /\ aret = 0
  /\ orig0 = original

\* no call of CompareStructs in progress
CompareIdle ==
  /\ old = ZeroRecord
  /\ new = ZeroRecord
  /\ pc = [f \in FieldNames |-> "idle"]
  /\ mu = NoLock
  /\ wg = 0
  /\ changes = <<>>
  /\ tmp = [f \in FieldNames |-> <<>>]
  /\ cpc = "idle"
  /\ ret = <<>>
  /\ oldArg = ByValue(ZeroRecord)
  /\ newArg = ByValue(ZeroRecord)
  /\ cerr = "none"
  /\ order = <<>>

\* a record with every field set, the unexported one too
SampleRecord ==
  [f \in FieldNames |->
     CASE f = "Name" -> StrV(<<97>>)
       [] f = "Age" -> IntV(1)
       [] f = "Active" -> BoolV(TRUE)
       [] f = "Children" -> SliceV(<<1>>)
       [] f = "Manager" -> PtrV(1)
       [] f = "private" -> StrV(<<115>>)]

\* the originals handed to ApplyChanges
Originals == {ZeroRecord, SampleRecord}

\* values a caller puts into a change
SampleValues ==
  {StrV(<<97>>), IntV(1), FloatV(5), BoolV(TRUE), SliceV(<<1>>), PtrV(1)}

\* the new values tried on a field name: absent, a value no field converts
\* from, and the values of the field's type or convertible to it
NewValuesFor(f) ==
  {NilV, StructV} \cup
  (IF f \in FieldNames
     THEN {v \in SampleValues : ConvertibleTo(v.kind, FieldKind(f))}
     ELSE {})

\* names a change may carry: the fields of the shape and one that is no field
ChangeFields == FieldNames \cup {"NoSuch"}

\* the changes a caller builds
CallerChanges ==
  UNION {{[Field |-> f, ChangeType |-> t, OldValue |-> NilV, NewValue |-> v] :
            t \in {"modified", "added"}, v \in NewValuesFor(f)} : f \in ChangeFields}
  \cup
  {[Field |-> f, ChangeType |-> "deleted", OldValue |-> ov[1], NewValue |-> ov[2]] :
     f \in ChangeFields, ov \in {<<StrV(<<97>>), NilV>>, <<NilV, IntV(1)>>}}

\* the change lists a caller builds
CallerLists == UNION {[1..n -> CallerChanges] : n \in 0..MaxChanges}

InitApply ==
  /\ \E o \in Originals, p \in BOOLEAN, l \in CallerLists : ApplyEntry(o, p, l)
  /\ CompareIdle
  /\ AlgebraIdle
  /\ phase = "apply"

SpecApply == InitApply /\ [][NextApply]_vars

InitCompare ==
  /\ \E p \in InputPairs : CompareEntry(ByValue(p[1]), ByValue(p[2]))
  /\ ApplyIdle
  /\ AlgebraIdle
  /\ phase = "compare"

SpecCompare == InitCompare /\ [][NextCompare]_vars

\* the records of the calls whose arguments vary in kind: Name and Age take
\* any of their values
CallRecords == RecordsOver(Len(Fields), {"Name", "Age"})

\* the arguments of those calls: a Person by value, by pointer and by pointer
\* to pointer; a nil *Person and a nil **Person; an OtherStruct and a text,
\* by value and by pointer; the untyped nil
CallArgs ==
  {[ind |-> i, typ |-> "Person", isNil |-> FALSE, rec |-> r] :
     i \in {0, 1, 2}, r \in CallRecords}
  \cup {[ind |-> i, typ |-> "Person", isNil |-> TRUE, rec |-> ZeroRecord] : i \in {1, 2}}
  \cup {[ind |-> i, typ |-> t, isNil |-> FALSE, rec |-> ZeroRecord] :
          i \in {0, 1}, t \in {"OtherStruct", "string"}}
  \cup {InvalidArg}

\* the pairs of arguments; two OtherStructs are left out, the field tasks
\* being those of the Person shape
CallPairs ==
  {p \in CallArgs \X CallArgs : ~(p[1].typ = "OtherStruct" /\ p[2].typ = "OtherStruct")}

InitCall ==
  /\ \E p \in CallPairs : CompareEntry(p[1], p[2])
  /\ ApplyIdle
  /\ AlgebraIdle
  /\ phase = "compare"

\* the steps of the goroutine of field f
TaskStep(f) ==
  \/ TaskCheck(f)
  \/ TaskLock(f)
  \/ TaskAppend(f)
  \/ TaskStore(f)
  \/ TaskUnlock(f)

\* the steps of the calling goroutine
CallerStep == Validate \/ Spawn \/ WaitReturn

\* the Go scheduler: a goroutine that can run is run in the end, the caller
\* as well as each field task
Fairness ==
  /\ WF_vars(CallerStep)
  /\ \A f \in FieldNames : WF_vars(TaskStep(f))

SpecCall == InitCall /\ [][NextCompare]_vars /\ Fairness

----------------------------------------------------------------------------
(* The flow of main and of the round-trip properties: compare two records, *)
(* apply the ChangeSet to the first, then apply the reverted ChangeSet to  *)
(* the patched record.                                                     *)

\* an inverse that swaps the values and keeps the type
RevertChangeSwapOnly(c) ==
  [Field |-> c.Field, ChangeType |-> c.ChangeType,
   OldValue |-> c.NewValue, NewValue |-> c.OldValue]

\* the entry RevertChanges makes of one change
RevertChange(c) ==
  [Field |-> c.Field,
   ChangeType |-> CASE c.ChangeType = "added" -> "deleted"
                    [] c.ChangeType = "deleted" -> "added"
                    [] c.ChangeType = "modified" -> "modified"
                    [] OTHER -> "",
   OldValue |-> c.NewValue,
   NewValue |-> c.OldValue]

RevertChanges(cs) == [i \in 1..Len(cs) |-> RevertChange(cs[i])]

\* result, err := ApplyChanges(old, changes)
CallApply ==
  /\ phase = "compare"
  /\ cpc = "returned"
  /\ phase' = "apply"
  /\ heap' = <<old>>
  /\ orig0' = old
  /\ isPointer' = FALSE
  /\ res' = 0
  /\ applyChs' = ret
  /\ idx' = 0
  /\ fieldCache' = {}
  /\ apc' = "start"
  /\ aerr' = "none"
  /\ aret' = 0
  /\ UNCHANGED <<cmpVars, algVars>>

\* ApplyChanges(result, RevertChanges(changes))
CallRevert ==
  /\ phase = "apply"
  /\ apc = "done"
  /\ aerr = "none"
  /\ phase' = "revert"
  /\ heap' = <<heap[aret]>>
  /\ orig0' = heap[aret]
  /\ isPointer' = FALSE
  /\ res' = 0
  /\ applyChs' = RevertChanges(ret)
  /\ idx' = 0
  /\ fieldCache' = {}
  /\ apc' = "start"
  /\ aerr' = "none"
  /\ aret' = 0
  /\ UNCHANGED <<cmpVars, algVars>>

InitSync ==
  /\ \E p \in InputPairs : CompareEntry(ByValue(p[1]), ByValue(p[2]))
  /\ ApplyIdle
  /\ AlgebraIdle
  /\ phase = "compare"

NextSync ==
  \/ NextCompare
  \/ NextApply
  \/ CallApply
  \/ CallRevert

SpecSync == InitSync /\ [][NextSync]_vars

----------------------------------------------------------------------------
(* The change-set functions of compare.go.  A []ChangeType or []string     *)
(* filter argument is held as the set of its elements, which is all the    *)
(* function keeps of it (typeMap, fieldMap).                               *)

ChangeTypes == {"modified", "deleted", "added"}

\* the changes handed to the change-set functions: two fields, every type,
\* values that are absent, a text, a whole number and a boolean
AlgChanges ==
  {[Field |-> f, ChangeType |-> t, OldValue |-> v[1], NewValue |-> v[2]] :
     f \in {"Name", "Age"}, t \in ChangeTypes,
     v \in {<<NilV, StrV(<<97>>)>>, <<IntV(1), BoolV(TRUE)>>}}

AlgLists == UNION {[1..n -> AlgChanges] : n \in 0..MaxList}

\* two argument lists of MergeChanges: l cut after its first k entries
Split(l, k) == <<SubSeq(l, 1, k), SubSeq(l, k + 1, Len(l))>>

\* the filters handed to FilterChanges
FilterInputs == [types : SUBSET ChangeTypes, fields : SUBSET {"Name", "Age"}]

\* the empty map
EmptyMap == [k \in {} |-> NilV]

\* an assignment that keeps the entry a key already has
PutIfAbsent(m, k, v) ==
  [x \in DOMAIN m \cup {k} |-> IF x \in DOMAIN m THEN m[x] ELSE v]

\* m[k] = v on a Go map
Put(m, k, v) == [x \in DOMAIN m \cup {k} |-> IF x = k THEN v ELSE m[x]]

\* the loop 'for _, change := range list { m[change.Field] = change }' over
\* the first i entries of cs
RECURSIVE PutAll(_, _, _)
PutAll(m, cs, i) ==
  IF i = 0 THEN m ELSE Put(PutAll(m, cs, i - 1), cs[i].Field, cs[i])

ChangesToMap(cs) == PutAll(EmptyMap, cs, Len(cs))

\* the map MergeChanges has built after the first n lists
RECURSIVE MergedMap(_, _)
MergedMap(ls, n) ==
  IF n = 0 THEN EmptyMap ELSE PutAll(MergedMap(ls, n - 1), ls[n], Len(ls[n]))

\* the lists a 'for range' over map m can build: Go leaves the iteration
\* order of a map unspecified, so every order of the keys
MapOrders(m) ==
  {[i \in 1..Cardinality(DOMAIN m) |-> m[ks[i]]] :
     ks \in {q \in [1..Cardinality(DOMAIN m) -> DOMAIN m] :
               \A i, j \in 1..Cardinality(DOMAIN m) : q[i] = q[j] => i = j}}

\* MergeChanges(changeLists...)
DoMerge ==
  /\ op = "merge"
  /\ opc = "call"
  /\ out' \in MapOrders(MergedMap(args.lists, Len(args.lists)))
  /\ opc' = "done"
  /\ UNCHANGED <<op, args, wire, oerr>>
  /\ UNCHANGED <<cmpVars, appVars, phase>>

\* a match on either filter
MatchesEither(c, types, fields) ==
  \/ types = {} \/ c.ChangeType \in types
  \/ fields = {} \/ c.Field \in fields

\* matchesType && matchesField
Matches(c, types, fields) ==
  /\ types = {} \/ c.ChangeType \in types
  /\ fields = {} \/ c.Field \in fields

FilterChanges(cs, types, fields) ==
  IF types = {} /\ fields = {} THEN cs
  ELSE SelectSeq(cs, LAMBDA c : Matches(c, types, fields))

DoFilter ==
  /\ op = "filter"
  /\ opc = "call"
  /\ out' = FilterChanges(args.lists[1], args.types, args.fields)
  /\ opc' = "done"
  /\ UNCHANGED <<op, args, wire, oerr>>
  /\ UNCHANGED <<cmpVars, appVars, phase>>

\* RevertChanges(changes)
DoRevert ==
  /\ op = "revert"
  /\ opc = "call"
  /\ out' = RevertChanges(args.lists[1])
  /\ opc' = "done"
  /\ UNCHANGED <<op, args, wire, oerr>>
  /\ UNCHANGED <<cmpVars, appVars, phase>>

\* A JSON value is a record [t, s]: t the kind of the token (null, bool,
\* number, string), s its payload; a number holds twice its value, as a
\* float64 does.
JNull == [t |-> "null", s |-> <<>>]

\* json.Marshal of the value of an interface{} field
MarshalValue(v) ==
  CASE v.isNil -> JNull
    [] v.kind = "string" -> [t |-> "string", s |-> v.data]
    [] v.kind = "bool" -> [t |-> "bool", s |-> v.data]
    [] v.kind = "int" -> [t |-> "number", s |-> <<2 * v.data[1]>>]
    [] v.kind = "float64" -> [t |-> "number", s |-> v.data]

\* json.Unmarshal into an interface{} field: null gives nil, a JSON number
\* gives a float64
UnmarshalValue(j) ==
  CASE j.t = "null" -> NilV
    [] j.t = "string" -> StrV(j.s)
    [] j.t = "bool" -> Val("bool", FALSE, j.s)
    [] j.t = "number" -> FloatV(j.s[1])

\* json.Marshal of a Change: an object of its four fields
MarshalChange(c) ==
  [Field |-> [t |-> "string", s |-> c.Field],
   ChangeType |-> [t |-> "string", s |-> c.ChangeType],
   OldValue |-> MarshalValue(c.OldValue),
   NewValue |-> MarshalValue(c.NewValue)]

\* whether json.Unmarshal accepts the object for a Change: the two string
\* fields take a JSON string or null
Decodable(j) ==
  /\ j.Field.t \in {"string", "null"}
  /\ j.ChangeType.t \in {"string", "null"}

\* json.Unmarshal of an object into a Change
UnmarshalChange(j) ==
  [Field |-> IF j.Field.t = "null" THEN "" ELSE j.Field.s,
   ChangeType |-> IF j.ChangeType.t = "null" THEN "" ELSE j.ChangeType.s,
   OldValue |-> UnmarshalValue(j.OldValue),
   NewValue |-> UnmarshalValue(j.NewValue)]

\* ChangesToJSON(changes)
DoToJSON ==
  /\ op = "json"
  /\ opc = "call"
  /\ wire' = [i \in 1..Len(args.lists[1]) |-> MarshalChange(args.lists[1][i])]
  /\ opc' = "encoded"
  /\ UNCHANGED <<op, args, out, oerr>>
  /\ UNCHANGED <<cmpVars, appVars, phase>>

\* ChangesFromJSON(data) on the bytes ChangesToJSON returned
DoFromJSON ==
  /\ op = "json"
  /\ opc = "encoded"
  /\ IF \A i \in 1..Len(wire) : Decodable(wire[i])
       THEN /\ out' = [i \in 1..Len(wire) |-> UnmarshalChange(wire[i])]
            /\ UNCHANGED oerr
       ELSE /\ out' = <<>>
            /\ oerr' = "cannot unmarshal"
  /\ opc' = "done"
  /\ UNCHANGED <<op, args, wire>>
  /\ UNCHANGED <<cmpVars, appVars, phase>>

NextAlgebra ==
  \/ DoMerge
  \/ DoFilter
  \/ DoRevert
  \/ DoToJSON
  \/ DoFromJSON

\* state of a call of function f on lists ls with filters flt
AlgebraEntry(f, ls, flt) ==
  /\ op = f
  /\ opc = "call"
  /\ args = [lists |-> ls, types |-> flt.types, fields |-> flt.fields]
  /\ wire = <<>>
  /\ out = <<>>
  /\ oerr = "none"

NoFilter == [types |-> {}, fields |-> {}]

InitAlgebra ==
  /\ \/ AlgebraEntry("merge", <<>>, NoFilter)
     \/ \E l \in AlgLists : AlgebraEntry("merge", <<l>>, NoFilter)
     \/ \E l \in AlgLists, k \in 0..MaxList :
          k <= Len(l) /\ AlgebraEntry("merge", Split(l, k), NoFilter)
     \/ \E l \in AlgLists, flt \in FilterInputs : AlgebraEntry("filter", <<l>>, flt)
     \/ \E l \in AlgLists : AlgebraEntry("revert", <<l>>, NoFilter)
     \/ \E l \in AlgLists : AlgebraEntry("json", <<l>>, NoFilter)
  /\ CompareIdle
  /\ ApplyIdle
  /\ phase = "algebra"

SpecAlgebra == InitAlgebra /\ [][NextAlgebra]_vars

----------------------------------------------------------------------------
(* Properties. *)

\* the positions of a change list that name field f
Naming(cs, f) == {i \in 1..Len(cs) : cs[i].Field = f}

\* C1: patch round trip.  When ApplyChanges(r, CompareStructs(r, r2)) has
\* ended, it has succeeded and every exported field of the returned record is
\* deeply equal to the same field of r2.
C1_RoundTripEqualsNew ==
  (phase = "apply" /\ apc = "done") =>
    /\ aerr = "none"
    /\ aret # 0
    /\ \A f \in ExportedNames : DeepEqual(heap[aret][f], new[f])

\* C2: revert inverse law.  With c = CompareStructs(a, b), when
\* ApplyChanges(ApplyChanges(a, c), RevertChanges(c)) has ended, it has
\* succeeded and every exported field of the returned record is deeply equal
\* to the same field of a.
C2_RevertRestoresOld ==
  (phase = "revert" /\ apc = "done") =>
    /\ aerr = "none"
    /\ aret # 0
    /\ \A f \in ExportedNames : DeepEqual(heap[aret][f], old[f])

\* C3: under every interleaving of the field tasks, the ChangeSet returned by
\* CompareStructs holds exactly one Change for each exported field whose old
\* and new values differ, and none for any other field (equal, unexported,
\* or not a field of the shape).
C3_OneChangePerUnequalField ==
  cpc = "returned" =>
    /\ \A i \in 1..Len(ret) : ret[i].Field \in FieldNames
    /\ \A f \in FieldNames :
         Cardinality(Naming(ret, f)) =
           IF Exported(f) /\ old[f] # new[f] THEN 1 ELSE 0

\* C3 witness: a call has returned two changes, appended by two tasks in the
\* reverse of the declaration order of their fields.
C3_Witness ==
  /\ cpc = "returned"
  /\ Len(ret) = 2
  /\ ret[1].Field = "Children"
  /\ ret[2].Field = "Name"

\* the value of a field is present / non-empty, by type category
Present(v) == ~v.isNil
NonEmpty(v) == Len(v.data) > 0

\* C4: every Change in the result buffer is Deleted exactly when its field is
\* a reference with old present and new absent, or a collection or a text
\* with old non-empty and new empty; Added exactly in the mirrored cases;
\* Modified in every other case (always for numbers and booleans).
C4_Classification ==
  \A i \in 1..Len(changes) :
    LET c == changes[i]
        k == FieldKind(c.Field)
        o == old[c.Field]
        n == new[c.Field]
        del == \/ k = "ptr" /\ Present(o) /\ ~Present(n)
               \/ k \in {"slice", "string"} /\ NonEmpty(o) /\ ~NonEmpty(n)
        add == \/ k = "ptr" /\ ~Present(o) /\ Present(n)
               \/ k \in {"slice", "string"} /\ ~NonEmpty(o) /\ NonEmpty(n)
    IN /\ c.OldValue = o
       /\ c.NewValue = n
       /\ (c.ChangeType = "deleted") <=> del
       /\ (c.ChangeType = "added") <=> add
       /\ (c.ChangeType = "modified") <=> (~del /\ ~add)
       /\ k \in {"int", "bool"} => c.ChangeType = "modified"

\* C4 witness: a returned ChangeSet holds a Deleted text and a Modified
\* collection whose old and new values are both empty (absent against
\* empty-but-present).
C4_Witness ==
  /\ cpc = "returned"
  /\ \E i, j \in 1..Len(ret) :
       /\ ret[i].Field = "Name"
       /\ ret[i].ChangeType = "deleted"
       /\ ret[j].Field = "Children"
       /\ ret[j].ChangeType = "modified"
       /\ ret[j].OldValue = NilSlice
       /\ ret[j].NewValue = SliceV(<<>>)

\* the last position of a non-empty set of positions
Last(N) == CHOOSE i \in N : \A j \in N : j <= i

\* the value a field of kind k holds once v has been stored into it
Stored(v, k) == IF v = NilV THEN Zero(k) ELSE Convert(v, k)

\* C5 as stated: after a successful ApplyChanges every exported field holds
\* the original's value if no change names it, and otherwise the zero value
\* if the last change naming it is Deleted and that change's newValue itself
\* if it is Added or Modified.
C5_LastChangeLiteral ==
  (apc = "done" /\ aerr = "none") =>
    \A f \in ExportedNames :
      LET N == Naming(applyChs, f)
      IN heap[aret][f] =
           IF N = {} THEN orig0[f]
           ELSE IF applyChs[Last(N)].ChangeType = "deleted" THEN Zero(FieldKind(f))
           ELSE IF applyChs[Last(N)].NewValue = NilV THEN Zero(FieldKind(f))
           ELSE applyChs[Last(N)].NewValue

\* C5 amended: after a successful ApplyChanges every exported field holds the
\* original's value if no change names it, and otherwise the value determined
\* by the last change naming it alone: the zero value if it is Deleted, its
\* newValue converted to the field's declared type if it is Added or Modified.
C5_LastChangeWins ==
  (apc = "done" /\ aerr = "none") =>
    \A f \in ExportedNames :
      LET N == Naming(applyChs, f)
      IN heap[aret][f] =
           IF N = {} THEN orig0[f]
           ELSE IF applyChs[Last(N)].ChangeType = "deleted" THEN Zero(FieldKind(f))
           ELSE Stored(applyChs[Last(N)].NewValue, FieldKind(f))

\* C5 witness: a successful call on a record with every field set, whose two
\* changes both name Age, the second carrying a float64; Name keeps the
\* original's value.
C5_Witness ==
  /\ apc = "done"
  /\ aerr = "none"
  /\ orig0 = SampleRecord
  /\ Len(applyChs) = 2
  /\ applyChs[1].Field = "Age"
  /\ applyChs[1].ChangeType = "deleted"
  /\ applyChs[2].Field = "Age"
  /\ applyChs[2].NewValue = FloatV(5)
  /\ heap[aret]["Age"] = IntV(2)
  /\ heap[aret]["Name"] = StrV(<<97>>)

\* C6: ApplyChanges never changes the original: at every point of the call
\* the caller's instance holds the values it was passed with; a successful
\* call returns an instance other than the original, a failed call returns
\* no record.
C6_OriginalUntouched ==
  apc # "idle" =>
    /\ heap[1] = orig0
    /\ apc = "done" =>
         IF aerr = "none" THEN aret \in 2..Len(heap) ELSE aret = 0

\* C6 witness: a call failed at its second change after its first change had
\* been written into the record under construction.
C6_Witness ==
  /\ apc = "done"
  /\ aerr = "cannot convert"
  /\ idx = 2
  /\ orig0 = SampleRecord
  /\ heap[res]["Children"] # orig0["Children"]
  /\ heap[1] = orig0
  /\ aret = 0

\* the outcomes in which ApplyChanges returns an error and no record
ReturnedError ==
  /\ apc = "done"
  /\ aerr \in {"not found", "not settable", "cannot convert"}
  /\ aret = 0

\* C7: if any change of the list, at any position, names a field that is not
\* on the shape or is unexported, the call ends by returning an error and no
\* record.
C7_BadFieldFails ==
  (apc = "done" /\ \E i \in 1..Len(applyChs) : applyChs[i].Field \notin ExportedNames)
    => ReturnedError

\* C8: for the Added or Modified change the loop has just handled, on an
\* exported field: an absent newValue on a field that admits absence leaves
\* the zero value; a newValue of the field's type is assigned; a newValue of
\* a convertible type is converted and assigned; in every other case, an
\* absent newValue on a number, boolean or text field included, the call has
\* returned 'cannot convert value' and no record.
C8_SetCases ==
  (idx >= 1 /\ applyChs[idx].Field \in ExportedNames
            /\ applyChs[idx].ChangeType \in {"added", "modified"}) =>
    LET f == applyChs[idx].Field
        v == applyChs[idx].NewValue
        k == FieldKind(f)
    IN IF v = NilV /\ k \in {"ptr", "slice"}
         THEN aerr = "none" /\ heap[res][f] = Zero(k)
       ELSE IF v # NilV /\ v.kind = k
         THEN aerr = "none" /\ heap[res][f] = v
       ELSE IF v # NilV /\ ConvertibleTo(v.kind, k)
         THEN aerr = "none" /\ heap[res][f] = Convert(v, k)
       ELSE apc = "done" /\ aerr = "cannot convert" /\ aret = 0

\* the zero values the claim names, by field
ZeroOf(f) ==
  CASE f \in {"Name", "private"} -> StrV(<<>>)
    [] f = "Age" -> IntV(0)
    [] f = "Active" -> BoolV(FALSE)
    [] f = "Children" -> NilSlice
    [] f = "Manager" -> NilPtr

\* C9: once the loop has handled a Deleted change on an exported field, the
\* call has not failed and the field holds its type's zero value in the
\* record under construction (and in the returned record if the change is the
\* last), whatever the field held and whatever values the change carries.
C9_DeletedSetsZero ==
  (idx >= 1 /\ applyChs[idx].Field \in ExportedNames
            /\ applyChs[idx].ChangeType = "deleted") =>
    /\ aerr = "none"
    /\ heap[res][applyChs[idx].Field] = ZeroOf(applyChs[idx].Field)
    /\ apc = "done" => heap[aret][applyChs[idx].Field] = ZeroOf(applyChs[idx].Field)

\* C9 witness: a Deleted change carrying a non-empty newValue has emptied the
\* Children of a record that had some, and the call has returned.
C9_Witness ==
  /\ apc = "done"
  /\ aret # 0
  /\ orig0 = SampleRecord
  /\ Len(applyChs) = 1
  /\ applyChs[1].Field = "Children"
  /\ applyChs[1].ChangeType = "deleted"
  /\ applyChs[1].NewValue = IntV(1)
  /\ heap[aret]["Children"] = NilSlice

\* C10: applying the empty change list succeeds and returns a record equal to
\* the original in every field, the unexported one included.
C10_EmptyListIdentity ==
  (apc = "done" /\ applyChs = <<>>) =>
    /\ aerr = "none"
    /\ aret # 0
    /\ \A f \in FieldNames : heap[aret][f] = orig0[f]

\* C11: no-op diff.  A call of CompareStructs on two records of the same shape
\* that hold the same values in every field (compare(r, r)) returns the empty
\* ChangeSet and no error.
C11_NoOpDiff ==
  (cpc = "returned" /\ Kind(oldArg) = "struct" /\ Kind(newArg) = "struct"
                    /\ oldArg.typ = newArg.typ /\ oldArg.rec = newArg.rec) =>
    /\ ret = <<>>
    /\ cerr = "none"

\* C11 witness: a call on two records that both hold the same name and a
\* reference to equal pointees has run every field task and returned nothing.
C11_Witness ==
  /\ cpc = "returned"
  /\ oldArg.rec = newArg.rec
  /\ oldArg.rec["Manager"] = PtrV(1)
  /\ oldArg.rec["Name"] = StrV(<<97>>)
  /\ \A f \in FieldNames : pc[f] = "done"
  /\ ret = <<>>

\* C12: the ChangeSet a successful call returns lists the changes in the order
\* in which their field tasks acquired the lock, whatever the declaration
\* order of the fields, and it holds the same set of changes in every run: the
\* change of each exported field whose values differ.
C12_OrderIsLockOrder ==
  (cpc = "returned" /\ cerr = "none") =>
    /\ Len(ret) = Len(order)
    /\ \A i \in 1..Len(ret) : ret[i].Field = order[i]
    /\ {ret[i] : i \in 1..Len(ret)} =
         {FieldChange(f, old[f], new[f]) : f \in {g \in ExportedNames : old[g] # new[g]}}

\* C12 witness: on records that differ in Name and Age, the task of Age took
\* the lock first and the returned ChangeSet lists Age before Name.
C12_Witness ==
  /\ cpc = "returned"
  /\ old["Name"] = StrV(<<97>>)
  /\ new["Name"] = StrV(<<98>>)
  /\ old["Age"] = IntV(0)
  /\ new["Age"] = IntV(1)
  /\ order = <<"Age", "Name">>
  /\ Len(ret) = 2
  /\ ret[1].Field = "Age"
  /\ ret[2].Field = "Name"

\* the concatenation of the first n lists of ls
RECURSIVE Concat(_, _)
Concat(ls, n) == IF n = 0 THEN <<>> ELSE Concat(ls, n - 1) \o ls[n]

\* C13: MergeChanges(l1, ..., ln) returns exactly one Change for each field
\* name that occurs in an input list, namely the last entry naming the field
\* in l1 ++ ... ++ ln, and nothing else; its entries are exactly the entries
\* of ChangesToMap of that concatenation.  The order is left open.
C13_MergeLastWins ==
  (op = "merge" /\ opc = "done") =>
    LET cat == Concat(args.lists, Len(args.lists))
        names == {cat[i].Field : i \in 1..Len(cat)}
    IN /\ Len(out) = Cardinality(names)
       /\ \A f \in names :
            /\ Cardinality(Naming(out, f)) = 1
            /\ \A i \in Naming(out, f) : out[i] = cat[Last(Naming(cat, f))]
       /\ {out[i] : i \in 1..Len(out)} =
            {ChangesToMap(cat)[f] : f \in DOMAIN ChangesToMap(cat)}

\* C13 witness: two lists both name Name with different entries, the first
\* also names Age; the merge holds two changes, Age first, and Name's entry
\* is the one of the second list.
C13_Witness ==
  /\ op = "merge"
  /\ opc = "done"
  /\ Len(args.lists) = 2
  /\ Len(args.lists[1]) = 2
  /\ Len(args.lists[2]) = 1
  /\ args.lists[1][1].Field = "Name"
  /\ args.lists[1][2].Field = "Age"
  /\ args.lists[2][1].Field = "Name"
  /\ args.lists[2][1] # args.lists[1][1]
  /\ out = <<args.lists[1][2], args.lists[2][1]>>

\* C14: FilterChanges returns, in input order, exactly the entries whose type
\* is among the types asked for (if any are) and whose field is among the
\* fields asked for (if any are); with both filters empty it returns the
\* input as it is; with types, or with fields, of which none occurs in the
\* input it returns the empty list.
C14_FilterSelects ==
  (op = "filter" /\ opc = "done") =>
    LET inp == args.lists[1]
        Kept == {i \in 1..Len(inp) :
                   /\ args.types # {} => inp[i].ChangeType \in args.types
                   /\ args.fields # {} => inp[i].Field \in args.fields}
        Nth(j) == CHOOSE i \in Kept : Cardinality({x \in Kept : x <= i}) = j
    IN /\ Len(out) = Cardinality(Kept)
       /\ \A j \in 1..Len(out) : out[j] = inp[Nth(j)]
       /\ (args.types = {} /\ args.fields = {}) => out = inp
       /\ (args.types # {} /\ \A i \in 1..Len(inp) : inp[i].ChangeType \notin args.types)
            => out = <<>>
       /\ (args.fields # {} /\ \A i \in 1..Len(inp) : inp[i].Field \notin args.fields)
            => out = <<>>

\* C14 witness: asked for Added changes of Name, a list whose first entry has
\* the type only, whose second has the field only and whose third has both
\* is filtered down to the third.
C14_Witness ==
  /\ op = "filter"
  /\ opc = "done"
  /\ args.types = {"added"}
  /\ args.fields = {"Name"}
  /\ Len(args.lists[1]) = 3
  /\ args.lists[1][1].ChangeType = "added"
  /\ args.lists[1][1].Field = "Age"
  /\ args.lists[1][2].ChangeType = "deleted"
  /\ args.lists[1][2].Field = "Name"
  /\ out = <<args.lists[1][3]>>

\* the inverse of a change type, as the claim names it
Flipped(t) ==
  CASE t = "added" -> "deleted"
    [] t = "deleted" -> "added"
    [] t = "modified" -> "modified"

\* the list returned by RevertChanges mirrors its input entry by entry
RevertMirror ==
  (op = "revert" /\ opc = "done") =>
    /\ Len(out) = Len(args.lists[1])
    /\ \A i \in 1..Len(out) :
         /\ out[i].Field = args.lists[1][i].Field
         /\ out[i].OldValue = args.lists[1][i].NewValue
         /\ out[i].NewValue = args.lists[1][i].OldValue
         /\ out[i].ChangeType = Flipped(args.lists[1][i].ChangeType)

\* C15: RevertChanges returns a list of the length and order of its input in
\* which entry i has the field of input entry i, its old and new values
\* swapped and its type flipped (Added to Deleted, Deleted to Added, Modified
\* kept); no step of the call changes the input list.
C15_RevertMirrors ==
  /\ []RevertMirror
  /\ [][op = "revert" => args' = args]_vars

\* C15 witness: a list of an Added, a Deleted and a Modified change has been
\* reverted.
C15_Witness ==
  /\ op = "revert"
  /\ opc = "done"
  /\ Len(out) = 3
  /\ args.lists[1][1].ChangeType = "added"
  /\ args.lists[1][2].ChangeType = "deleted"
  /\ args.lists[1][3].ChangeType = "modified"
  /\ args.lists[1][1].OldValue # args.lists[1][1].NewValue
  /\ out[1].ChangeType = "deleted"

\* C16: serialize round trip.  ChangesFromJSON(ChangesToJSON(c)) succeeds
\* and returns a list deeply equal to c: same length and order, and in each
\* entry the same field, type, old value and new value, runtime types of the
\* values included.
C16_JSONRoundTrip ==
  (op = "json" /\ opc = "done") =>
    /\ oerr = "none"
    /\ out = args.lists[1]

\* an argument that is a record after one level of dereferencing
RecordAfterOne(a) ==
  /\ a.typ \in {"Person", "OtherStruct"}
  /\ a.ind = 0 \/ (a.ind = 1 /\ ~a.isNil)

\* C17: once CompareStructs is past its validation, if either argument is not
\* a record after one level of dereferencing or the two record types differ,
\* the call has returned an error and no ChangeSet and no field task was ever
\* started; otherwise no error is returned, also when one argument is passed
\* by pointer and the other by value.
C17_Validation ==
  cpc # "entry" =>
    IF ~RecordAfterOne(oldArg) \/ ~RecordAfterOne(newArg) \/ oldArg.typ # newArg.typ
      THEN /\ cpc = "returned"
           /\ cerr # "none"
           /\ ret = <<>>
           /\ changes = <<>>
           /\ wg = 0
           /\ \A f \in FieldNames : pc[f] = "idle"
      ELSE cerr = "none"

\* C17 witness: a call on a pointer to a pointer to a Person and a Person by
\* value has returned the error that both arguments must be structs.
C17_Witness ==
  /\ cpc = "returned"
  /\ oldArg.typ = "Person"
  /\ oldArg.ind = 2
  /\ ~oldArg.isNil
  /\ newArg.typ = "Person"
  /\ newArg.ind = 0
  /\ cerr = "both arguments must be structs"

\* what holds at every point of a call: once it has returned without error
\* every task has signalled completion and the returned ChangeSet is the
\* buffer; from the launch on, the counter is the number of tasks that have
\* not signalled, so each task signals once; a task that has ended does not
\* hold the lock
Joined ==
  /\ (cpc = "returned" /\ cerr = "none") =>
       /\ \A f \in FieldNames : pc[f] = "done"
       /\ wg = 0
       /\ ret = changes
  /\ cpc \in {"wait", "returned"} /\ cerr = "none" =>
       wg = Cardinality({f \in FieldNames : pc[f] # "done"})
  /\ \A f \in FieldNames : pc[f] = "done" => mu # f

\* C18: fork-join.  The call returns only after every field task has
\* signalled completion and no step after the return changes the result
\* buffer; each task signals completion exactly once on each of its paths and
\* never ends holding the lock; and under fair scheduling of the caller and
\* of the tasks every call eventually returns.
C18_ForkJoin ==
  /\ []Joined
  /\ [][cpc = "returned" => changes' = changes]_vars
  /\ <>(cpc = "returned")

\* C18 witness: a call on two pointers to records that differ in Name and
\* Age has returned both changes after all six tasks ended, the lock free.
C18_Witness ==
  /\ cpc = "returned"
  /\ cerr = "none"
  /\ oldArg.ind = 1
  /\ newArg.ind = 1
  /\ \A f \in FieldNames : pc[f] = "done"
  /\ mu = NoLock
  /\ Len(ret) = 2

====
